---- MODULE Spec2Model ----
(***************************************************************************)
(* skgym.algorithms: BaseValueAlgorithm (base.py) and MonteCarlo           *)
(* (monte_carlo.py).  One algorithm instance, its experience cache and the *)
(* value function it is bound to.  Every action is one public call:        *)
(* the constructor, update, preprocess_transition or Y.                    *)
(*                                                                         *)
(* Numbers.  Rewards are integers; gamma and the returns are exact         *)
(* rationals <<numerator, denominator>> (floating-point rounding is not    *)
(* modelled).  Arrays of shape [batch_size, ...] are sequences; every      *)
(* batch built by preprocess_transition has size one.                      *)
(***************************************************************************)
EXTENDS Integers, Sequences, FiniteSets, TLC

MaxEpisodeLen == 3      \* longest episode (update calls up to the terminal one)
MaxFits == 3            \* total number of approximator updates explored
NumActions == 2         \* actions 0..NumActions-1
MaxModelType == 3       \* MODELTYPE tags 1..MaxModelType; only 1 and 2 are recognised

\* The observation of step t of an episode is t (a corridor walked left to
\* right), so that every step of an episode has its own feature row.
States == 0 .. MaxEpisodeLen
Actions == 0 .. (NumActions - 1)
Rewards == {1, 2, 3}
Gammas == {<<0, 1>>, <<1, 2>>, <<1, 1>>}
ModelTypes == 1 .. MaxModelType

VARIABLES
    constructed,        \* TRUE once MonteCarlo.__init__ has returned an instance
    policy,             \* self.policy
    value_function,     \* self.value_function
    gamma,              \* self.gamma
    experience_cache,   \* self.experience_cache: sequence of <<X, A, R, X_next>>
    nfit,               \* the approximator's parameters: number of fits applied
    targets,            \* self.Y calls of the last call: [X, A, G, Y]
    calls,              \* approximator operations invoked by the last call
    episode,            \* raw transitions passed to update in the current episode
    result,             \* the last call: [op, args, err, val]
    second              \* a second MonteCarlo instance on the same value function:
                        \* [constructed, experience_cache, episode]

vars == <<constructed, policy, value_function, gamma, experience_cache, nfit,
          targets, calls, episode, result, second>>

-----------------------------------------------------------------------------
(* Objects handed to the constructor.  A ValuePolicy wraps a value function *)
(* whose MODELTYPE it carries; "object" is anything else.                   *)

Obj(cls, mt) == [cls |-> cls, MODELTYPE |-> mt]
NoneObj == Obj("NoneType", 0)
CtorArgs == {Obj(c, m) : c \in {"ValuePolicy", "BaseValueFunction"}, m \in ModelTypes}
                \cup {Obj("object", 0)}

\* policy.value_function
PolicyValueFunction(p) == Obj("BaseValueFunction", p.MODELTYPE)

-----------------------------------------------------------------------------
(* Exact rational arithmetic for  G = R + self.gamma * G.                  *)

Rat(n) == <<n, 1>>
RatMul(p, q) == <<p[1] * q[1], p[2] * q[2]>>
RatAdd(p, q) == <<p[1] * q[2] + q[1] * p[2], p[2] * q[2]>>
RatEq(p, q) == p[1] * q[2] = q[1] * p[2]

-----------------------------------------------------------------------------
(* The value function (external collaborator).                             *)

\* value_function.X(s, a) of a type-I model: one row, the features of (s, a)
X_sa(s, a) == << <<s, a>> >>
\* value_function.X(s) of a type-II model: one row, the features of s alone
X_s(s) == << <<s>> >>
\* value_function.preprocess_typeII(s), the next-state feature expansion:
\* type I, shape [1, num_actions, num_features]: the features of (s, a) for
\* every candidate action a; type II, shape [1, num_features]: those of s
preprocess_typeII(vf, s) ==
    IF vf.MODELTYPE = 1 THEN << [a \in Actions |-> <<s, a>>] >> ELSE << <<s>> >>

\* The prediction for row x and action a under the parameters after `fit`
\* fits: a number determined by (x, a, fit), negative so that it is never a
\* return of positive rewards.
Predict(x, a, fit) == Rat(0 - (1 + a + NumActions * (x[1] + (MaxEpisodeLen + 1) * fit)))
\* value_function.batch_eval(X): one vector over the actions per row
batch_eval(X, fit) == [i \in 1 .. Len(X) |-> [a \in Actions |-> Predict(X[i], a, fit)]]

-----------------------------------------------------------------------------
(* ExperienceCache(overflow='grow').                                       *)

cache_append(cache, item) == Append(cache, item)
\* pop(): the entry appended last; the empty-cache error on an empty cache
cache_pop(cache) ==
    IF Len(cache) = 0
    THEN [err |-> "EmptyCacheError", item |-> <<>>, cache |-> cache]
    ELSE [err |-> "", item |-> cache[Len(cache)], cache |-> SubSeq(cache, 1, Len(cache) - 1)]
cache_bool(cache) == Len(cache) > 0

-----------------------------------------------------------------------------
(* BaseValueAlgorithm.__init__ / MonteCarlo.__init__                       *)

\* the constructor keeping the policy where the value function belongs
InitKeepsPolicy(arg, g) ==
    IF arg.cls = "ValuePolicy"
    THEN [err |-> "", policy |-> arg, value_function |-> arg, gamma |-> g]
    ELSE IF arg.cls = "BaseValueFunction"
    THEN [err |-> "", policy |-> NoneObj, value_function |-> arg, gamma |-> g]
    ELSE [err |-> "TypeError", policy |-> NoneObj, value_function |-> NoneObj, gamma |-> g]

\* the constructor without its else branch: anything that is not a policy is
\* taken for a value function
InitAcceptAny(arg, g) ==
    IF arg.cls = "ValuePolicy"
    THEN [err |-> "", policy |-> arg, value_function |-> PolicyValueFunction(arg), gamma |-> g]
    ELSE [err |-> "", policy |-> NoneObj, value_function |-> arg, gamma |-> g]

BaseValueAlgorithmInit(arg, g) ==
    IF arg.cls = "ValuePolicy"
    THEN [err |-> "", policy |-> arg, value_function |-> PolicyValueFunction(arg), gamma |-> g]
    ELSE IF arg.cls = "BaseValueFunction"
    THEN [err |-> "", policy |-> NoneObj, value_function |-> arg, gamma |-> g]
    ELSE [err |-> "TypeError", policy |-> NoneObj, value_function |-> NoneObj, gamma |-> g]

-----------------------------------------------------------------------------
(* BaseValueAlgorithm.preprocess_transition                                *)

\* preprocessing without its else branch: whatever is not type I is treated
\* as type II
PreprocessNoElse(vf, s, a, r, s_next) ==
    IF vf.MODELTYPE = 1
    THEN [err |-> "", val |-> <<X_sa(s, a), <<a>>, <<r>>, preprocess_typeII(vf, s_next)>>]
    ELSE [err |-> "", val |-> <<X_s(s), <<a>>, <<r>>, preprocess_typeII(vf, s_next)>>]

\* preprocessing that expands s where it should expand s_next
PreprocessNextFromS(vf, s, a, r, s_next) ==
    IF vf.MODELTYPE = 1
    THEN [err |-> "", val |-> <<X_sa(s, a), <<a>>, <<r>>, preprocess_typeII(vf, s)>>]
    ELSE IF vf.MODELTYPE = 2
    THEN [err |-> "", val |-> <<X_s(s), <<a>>, <<r>>, preprocess_typeII(vf, s)>>]
    ELSE [err |-> "ValueError", val |-> <<>>]

preprocess_transition(vf, s, a, r, s_next) ==
    IF vf.MODELTYPE = 1
    THEN [err |-> "", val |-> <<X_sa(s, a), <<a>>, <<r>>, preprocess_typeII(vf, s_next)>>]
    ELSE IF vf.MODELTYPE = 2
    THEN [err |-> "", val |-> <<X_s(s), <<a>>, <<r>>, preprocess_typeII(vf, s_next)>>]
    ELSE [err |-> "ValueError", val |-> <<>>]

-----------------------------------------------------------------------------
(* BaseValueAlgorithm.Y.  With a MODELTYPE that is neither 1 nor 2 no      *)
(* branch binds the local Y and `return Y` raises UnboundLocalError.       *)

EvalCall(X, P, fit) == [op |-> "batch_eval", X |-> X, Y |-> P, fit |-> fit]
UpdateCall(X, Yv, fit) == [op |-> "update", X |-> X, Y |-> Yv, fit |-> fit]

\* target construction that starts from zeros instead of the predictions
YFromZeros(vf, X, A, G, fit) ==
    IF vf.MODELTYPE = 1
    THEN [err |-> "", val |-> G, calls |-> <<>>]
    ELSE IF vf.MODELTYPE = 2
    THEN LET P == batch_eval(X, fit)
         IN  [err |-> "",
              val |-> [i \in 1 .. Len(P) |->
                          [a \in Actions |-> IF i <= Len(A) /\ a = A[i] THEN G[i] ELSE Rat(0)]],
              calls |-> <<EvalCall(X, P, fit)>>]
    ELSE [err |-> "UnboundLocalError", val |-> <<>>, calls |-> <<>>]

\* target construction that takes the type-II branch for type I as well
YAlwaysEval(vf, X, A, G, fit) ==
    IF vf.MODELTYPE \in {1, 2}
    THEN LET P == batch_eval(X, fit)
         IN  [err |-> "",
              val |-> [i \in 1 .. Len(P) |->
                          IF i <= Len(A) THEN [P[i] EXCEPT ![A[i]] = G[i]] ELSE P[i]],
              calls |-> <<EvalCall(X, P, fit)>>]
    ELSE [err |-> "UnboundLocalError", val |-> <<>>, calls |-> <<>>]

Y(vf, X, A, G, fit) ==
    IF vf.MODELTYPE = 1
    THEN [err |-> "", val |-> G, calls |-> <<>>]
    ELSE IF vf.MODELTYPE = 2
    THEN LET P == batch_eval(X, fit)
         IN  [err |-> "",
              val |-> [i \in 1 .. Len(P) |->
                          IF i <= Len(A) THEN [P[i] EXCEPT ![A[i]] = G[i]] ELSE P[i]],
              calls |-> <<EvalCall(X, P, fit)>>]
    ELSE [err |-> "UnboundLocalError", val |-> <<>>, calls |-> <<>>]

-----------------------------------------------------------------------------
(* MonteCarlo.update                                                       *)

\* the return without the discount:  G = R + G
ReturnUndiscounted(R, g, G) == [i \in 1 .. Len(R) |-> RatAdd(Rat(R[i]), G[i])]

\* G = R + self.gamma * G   (element-wise over the batch)
Return(R, g, G) == [i \in 1 .. Len(R) |-> RatAdd(Rat(R[i]), RatMul(g, G[i]))]

\* the loop with `if` for `while`: one transition is replayed, the rest stays
ReplayOnce(vf, g, cache, G, fit, tg, cl) ==
    IF ~cache_bool(cache)
    THEN [err |-> "", cache |-> cache, nfit |-> fit, targets |-> tg, calls |-> cl]
    ELSE LET p  == cache_pop(cache)
             G1 == Return(p.item[3], g, G)
             y  == Y(vf, p.item[1], p.item[2], G1, fit)
         IN  [err |-> y.err, cache |-> p.cache, nfit |-> fit + 1,
              targets |-> Append(tg, [X |-> p.item[1], A |-> p.item[2], G |-> G1, Y |-> y.val]),
              calls |-> (cl \o y.calls) \o <<UpdateCall(p.item[1], y.val, fit)>>]

\* the loop walking the cache front to back (chronological replay)
RECURSIVE ReplayForward(_, _, _, _, _, _, _)
ReplayForward(vf, g, cache, G, fit, tg, cl) ==
    IF ~cache_bool(cache)
    THEN [err |-> "", cache |-> cache, nfit |-> fit, targets |-> tg, calls |-> cl]
    ELSE LET item == Head(cache)
             G1   == Return(item[3], g, G)
             y    == Y(vf, item[1], item[2], G1, fit)
         IN  ReplayForward(vf, g, Tail(cache), G1, fit + 1,
                           Append(tg, [X |-> item[1], A |-> item[2], G |-> G1, Y |-> y.val]),
                           (cl \o y.calls) \o <<UpdateCall(item[1], y.val, fit)>>)

\* the loop  while True: ...  that leaves it to pop() to end the replay
RECURSIVE ReplayNoCheck(_, _, _, _, _, _, _)
ReplayNoCheck(vf, g, cache, G, fit, tg, cl) ==
    LET p == cache_pop(cache)
    IN  IF p.err # ""
        THEN [err |-> p.err, cache |-> p.cache, nfit |-> fit, targets |-> tg, calls |-> cl]
        ELSE LET G1 == Return(p.item[3], g, G)
                 y  == Y(vf, p.item[1], p.item[2], G1, fit)
             IN  ReplayNoCheck(vf, g, p.cache, G1, fit + 1,
                               Append(tg, [X |-> p.item[1], A |-> p.item[2], G |-> G1, Y |-> y.val]),
                               (cl \o y.calls) \o <<UpdateCall(p.item[1], y.val, fit)>>)

\* the loop building every target from the predictions of before the replay
RECURSIVE ReplaySnapshot(_, _, _, _, _, _, _)
ReplaySnapshot(vf, g, cache, G, fit, tg, cl) ==
    IF ~cache_bool(cache)
    THEN [err |-> "", cache |-> cache, nfit |-> fit, targets |-> tg, calls |-> cl]
    ELSE LET p  == cache_pop(cache)
             G1 == Return(p.item[3], g, G)
             y  == Y(vf, p.item[1], p.item[2], G1, fit - Len(tg))
         IN  ReplaySnapshot(vf, g, p.cache, G1, fit + 1,
                            Append(tg, [X |-> p.item[1], A |-> p.item[2], G |-> G1, Y |-> y.val]),
                            (cl \o y.calls) \o <<UpdateCall(p.item[1], y.val, fit)>>)

\* the loop  while self.experience_cache: ...
RECURSIVE Replay(_, _, _, _, _, _, _)
Replay(vf, g, cache, G, fit, tg, cl) ==
    IF ~cache_bool(cache)
    THEN [err |-> "", cache |-> cache, nfit |-> fit, targets |-> tg, calls |-> cl]
    ELSE LET p  == cache_pop(cache)
             X  == p.item[1]
             A  == p.item[2]
             R  == p.item[3]
             G1 == Return(R, g, G)
             y  == Y(vf, X, A, G1, fit)
         IN  IF p.err # ""
             THEN [err |-> p.err, cache |-> p.cache, nfit |-> fit,
                   targets |-> tg, calls |-> cl]
             ELSE IF y.err # ""
             THEN [err |-> y.err, cache |-> p.cache, nfit |-> fit,
                   targets |-> tg, calls |-> cl \o y.calls]
             ELSE Replay(vf, g, p.cache, G1, fit + 1,
                         Append(tg, [X |-> X, A |-> A, G |-> G1, Y |-> y.val]),
                         (cl \o y.calls) \o <<UpdateCall(X, y.val, fit)>>)

\* update whose return accumulator outlives the call: it starts from what
\* earlier replays left behind (here: their number of updates), 0 at first
MCUpdateStaleG(vf, g, cache, fit, s, a, r, s_next, done) ==
    LET pre == preprocess_transition(vf, s, a, r, s_next)
    IN  IF pre.err # ""
        THEN [err |-> pre.err, cache |-> cache, nfit |-> fit, targets |-> <<>>, calls |-> <<>>]
        ELSE LET c1 == cache_append(cache, pre.val)
             IN  IF ~done
                 THEN [err |-> "", cache |-> c1, nfit |-> fit, targets |-> <<>>, calls |-> <<>>]
                 ELSE Replay(vf, g, c1, <<Rat(fit)>>, fit, <<>>, <<>>)

\* update that caches first and preprocesses afterwards: on a bad model kind
\* the raw transition is in the cache when the error is raised
MCUpdateAppendFirst(vf, g, cache, fit, s, a, r, s_next, done) ==
    LET pre == preprocess_transition(vf, s, a, r, s_next)
    IN  IF pre.err # ""
        THEN [err |-> pre.err, cache |-> cache_append(cache, <<s, a, r, s_next>>),
              nfit |-> fit, targets |-> <<>>, calls |-> <<>>]
        ELSE LET c1 == cache_append(cache, pre.val)
             IN  IF ~done
                 THEN [err |-> "", cache |-> c1, nfit |-> fit, targets |-> <<>>, calls |-> <<>>]
                 ELSE Replay(vf, g, c1, <<Rat(0)>>, fit, <<>>, <<>>)

\* update without the early return: every call replays
MCUpdateNoEarlyReturn(vf, g, cache, fit, s, a, r, s_next, done) ==
    LET pre == preprocess_transition(vf, s, a, r, s_next)
    IN  IF pre.err # ""
        THEN [err |-> pre.err, cache |-> cache, nfit |-> fit, targets |-> <<>>, calls |-> <<>>]
        ELSE Replay(vf, g, cache_append(cache, pre.val), <<Rat(0)>>, fit, <<>>, <<>>)

MCUpdate(vf, g, cache, fit, s, a, r, s_next, done) ==
    LET pre == preprocess_transition(vf, s, a, r, s_next)
    IN  IF pre.err # ""
        THEN [err |-> pre.err, cache |-> cache, nfit |-> fit, targets |-> <<>>, calls |-> <<>>]
        ELSE LET c1 == cache_append(cache, pre.val)
             IN  IF ~done
                 THEN [err |-> "", cache |-> c1, nfit |-> fit, targets |-> <<>>, calls |-> <<>>]
                 ELSE \* G = 0, broadcast over the batch of one
                      Replay(vf, g, c1, <<Rat(0)>>, fit, <<>>, <<>>)

-----------------------------------------------------------------------------
Init ==
    /\ constructed = FALSE
    /\ policy = NoneObj
    /\ value_function = NoneObj
    /\ gamma = Rat(0)
    /\ experience_cache = <<>>
    /\ nfit = 0
    /\ targets = <<>>
    /\ calls = <<>>
    /\ episode = <<>>
    /\ result = [op |-> "none", args |-> <<>>, err |-> "", val |-> <<>>]
    /\ second = [constructed |-> FALSE, experience_cache |-> <<>>, episode |-> <<>>]

\* MonteCarlo(value_function_or_policy, gamma)
Construct(arg, g) ==
    /\ ~constructed
    /\ LET i == BaseValueAlgorithmInit(arg, g)
       IN  /\ constructed' = (i.err = "")
           /\ policy' = i.policy
           /\ value_function' = i.value_function
           /\ gamma' = IF i.err = "" THEN i.gamma ELSE gamma
           /\ result' = [op |-> "__init__", args |-> [arg |-> arg, gamma |-> g],
                         err |-> i.err, val |-> <<>>]
    /\ experience_cache' = <<>>
    /\ UNCHANGED <<nfit, targets, calls, episode, second>>

\* algorithm.update(s, a, r, s_next, done): step t of the episode goes from
\* observation t to observation t + 1
Update(a, r, done) ==
    /\ constructed
    /\ Len(experience_cache) + 1 <= MaxEpisodeLen
    /\ nfit + Len(experience_cache) + 1 <= MaxFits
    /\ LET s      == Len(experience_cache)
           s_next == Len(experience_cache) + 1
           t      == [s |-> s, a |-> a, r |-> r, s_next |-> s_next]
       IN  \E u \in {MCUpdate(value_function, gamma, experience_cache, nfit,
                              s, a, r, s_next, done)} :
           /\ experience_cache' = u.cache
           /\ nfit' = u.nfit
           /\ targets' = u.targets
           /\ calls' = u.calls
           /\ episode' = IF u.err = "ValueError" THEN episode
                         ELSE IF experience_cache = <<>> THEN <<t>>
                         ELSE Append(episode, t)
           /\ result' = [op |-> "update", args |-> [t |-> t, done |-> done],
                         err |-> u.err, val |-> <<>>]
    /\ UNCHANGED <<constructed, policy, value_function, gamma, second>>

\* algorithm.preprocess_transition(s, a, r, s_next), called on an instance
\* that has not started an episode
CallPreprocess(s, a, r, s_next) ==
    /\ constructed
    /\ experience_cache = <<>>
    /\ episode = <<>>
    /\ LET pre == preprocess_transition(value_function, s, a, r, s_next)
       IN  result' = [op |-> "preprocess_transition",
                      args |-> [s |-> s, a |-> a, r |-> r, s_next |-> s_next],
                      err |-> pre.err, val |-> pre.val]
    /\ targets' = <<>>
    /\ calls' = <<>>
    /\ episode' = <<>>
    /\ UNCHANGED <<constructed, policy, value_function, gamma, experience_cache, nfit, second>>

\* algorithm.Y(X, A, G) on a batch of one row, called on an instance that
\* has not started an episode
CallY(s, a, r) ==
    /\ constructed
    /\ experience_cache = <<>>
    /\ episode = <<>>
    /\ LET X == IF value_function.MODELTYPE = 1 THEN X_sa(s, a) ELSE X_s(s)
           y == Y(value_function, X, <<a>>, <<Rat(r)>>, nfit)
       IN  /\ result' = [op |-> "Y", args |-> [X |-> X, A |-> <<a>>, G |-> <<Rat(r)>>],
                         err |-> y.err, val |-> y.val]
           /\ calls' = y.calls
    /\ targets' = <<>>
    /\ episode' = <<>>
    /\ UNCHANGED <<constructed, policy, value_function, gamma, experience_cache, nfit, second>>

Next ==
    \/ \E arg \in CtorArgs, g \in Gammas : Construct(arg, g)
    \/ \E a \in Actions, r \in Rewards, done \in BOOLEAN : Update(a, r, done)
    \/ \E s \in States, a \in Actions, r \in Rewards, s_next \in States :
          CallPreprocess(s, a, r, s_next)
    \/ \E s \in States, a \in Actions, r \in Rewards : CallY(s, a, r)

Spec == Init /\ [][Next]_vars

-----------------------------------------------------------------------------
(* The other classes of base.py.  An instance is the record of its          *)
(* attributes: [policy, has_gamma, gamma].                                  *)

\* def __init__(self, gamma=0.9)
DefaultGamma == <<9, 10>>

\* object.__init__(self, **kwargs): excess arguments are a TypeError
ObjectInit(self, kwargs) ==
    IF kwargs # {} THEN [err |-> "TypeError", self |-> self] ELSE [err |-> "", self |-> self]

\* BaseAlgorithm.__init__(self, gamma):  self.gamma = gamma
BaseAlgorithmInit(self, g) ==
    [err |-> "", self |-> [self EXCEPT !.has_gamma = TRUE, !.gamma = g]]

\* BasePolicyAlgorithm.__init__(self, policy, gamma):  self.policy = policy,
\* then super(BaseAlgorithm, self).__init__(gamma=gamma): the lookup starts
\* after BaseAlgorithm in the method resolution order, ABC defines no
\* __init__, so this is object.__init__(self, gamma=gamma).
BasePolicyAlgorithmInit(p, g) ==
    ObjectInit([policy |-> p, has_gamma |-> FALSE, gamma |-> Rat(0)], {"gamma"})

\* P(policy, gamma) for a concrete subclass P of BasePolicyAlgorithm
ConstructPolicyAlgorithm(p, g) ==
    /\ experience_cache = <<>>
    /\ episode = <<>>
    /\ LET i == BasePolicyAlgorithmInit(p, g)
       IN  result' = [op |-> "BasePolicyAlgorithm.__init__",
                      args |-> [arg |-> p, gamma |-> g], err |-> i.err, val |-> i.self]
    /\ targets' = <<>>
    /\ calls' = <<>>
    /\ UNCHANGED <<constructed, policy, value_function, gamma, experience_cache, nfit, episode,
                   second>>

NextClasses ==
    \/ Next
    \/ \E m \in ModelTypes, g \in Gammas \cup {DefaultGamma} :
          ConstructPolicyAlgorithm(Obj("ValuePolicy", m), g)

SpecClasses == Init /\ [][NextClasses]_vars

-----------------------------------------------------------------------------
(* Two MonteCarlo instances.  Instance 1 is the one of Construct; instance *)
(* 2 is built on the same value function (or policy) with the same gamma.  *)
(* The caches live in two slots: slot 1 is experience_cache, slot 2 is     *)
(* second.experience_cache.  Here episode and second.episode hold the      *)
(* transitions passed through the instance since its last terminal call,   *)
(* and instance i is given the reward i.                                   *)

\* one cache for every instance (a cache created once, at class level)
SharedCacheRef(i) == 1

\* self.experience_cache = ExperienceCache(overflow='grow'): the slot that
\* instance i's attribute refers to is its own
CacheRef(i) == i

Slot(n) == IF n = 1 THEN experience_cache ELSE second.experience_cache
CacheOf(i) == Slot(CacheRef(i))
EpisodeOf(i) == IF i = 1 THEN episode ELSE second.episode

\* MonteCarlo(value_function_or_policy, gamma) once more
ConstructSecond ==
    /\ constructed
    /\ ~second.constructed
    /\ experience_cache' = IF CacheRef(2) = 1 THEN <<>> ELSE experience_cache
    /\ second' = [constructed |-> TRUE,
                  experience_cache |-> IF CacheRef(2) = 2 THEN <<>> ELSE second.experience_cache,
                  episode |-> <<>>]
    /\ result' = [op |-> "__init__", args |-> [arg |-> value_function, gamma |-> gamma,
                                               instance |-> 2],
                  err |-> "", val |-> <<>>]
    /\ UNCHANGED <<constructed, policy, value_function, gamma, nfit, targets, calls, episode>>

\* instance i: algorithm.update(s, a, r, s_next, done)
UpdateTwo(i, a, done) ==
    /\ constructed
    /\ i = 2 => second.constructed
    /\ Len(CacheOf(i)) + 1 <= MaxEpisodeLen
    /\ nfit + Len(experience_cache) + Len(second.experience_cache) + 1 <= MaxFits
    /\ LET s == Len(CacheOf(i))
           t == [s |-> s, a |-> a, r |-> i, s_next |-> s + 1]
       IN  \E u \in {MCUpdate(value_function, gamma, CacheOf(i), nfit, s, a, i, s + 1, done)} :
           LET ep == IF u.err = "ValueError" THEN EpisodeOf(i)
                     ELSE IF done THEN <<>>
                     ELSE Append(EpisodeOf(i), t)
           IN  /\ experience_cache' = IF CacheRef(i) = 1 THEN u.cache ELSE experience_cache
               /\ second' = [second EXCEPT
                                !.experience_cache = IF CacheRef(i) = 2 THEN u.cache ELSE @,
                                !.episode = IF i = 2 THEN ep ELSE @]
               /\ episode' = IF i = 1 THEN ep ELSE episode
               /\ nfit' = u.nfit
               /\ targets' = u.targets
               /\ calls' = u.calls
               /\ result' = [op |-> "update", args |-> [t |-> t, done |-> done, instance |-> i],
                             err |-> u.err, val |-> <<>>]
    /\ UNCHANGED <<constructed, policy, value_function, gamma>>

NextTwo ==
    \/ \E arg \in CtorArgs, g \in Gammas : Construct(arg, g)
    \/ ConstructSecond
    \/ \E i \in {1, 2}, a \in Actions, done \in BOOLEAN : UpdateTwo(i, a, done)

SpecTwo == Init /\ [][NextTwo]_vars

-----------------------------------------------------------------------------
(* An approximator whose operations can fail.  fail = [k, op] makes the    *)
(* operation op ("batch_eval" or "update") raise when it is invoked for    *)
(* the k-th transition popped by a replay; k = 0: nothing fails.  A failed *)
(* operation leaves the approximator's parameters as they were.            *)

\* what is left in the cache does not depend on the rewards: one reward
FailRewards == {1}
NoFail == [k |-> 0, op |-> "none"]
FailPoints == {NoFail} \cup [k : 1 .. MaxEpisodeLen, op : {"batch_eval", "update"}]

\* the loop with the popped transition put back when its update fails
RECURSIVE ReplayFailPutBack(_, _, _, _, _, _, _, _)
ReplayFailPutBack(vf, g, cache, G, fit, tg, cl, fail) ==
    IF ~cache_bool(cache)
    THEN [err |-> "", cache |-> cache, nfit |-> fit, targets |-> tg, calls |-> cl]
    ELSE LET p  == cache_pop(cache)
             G1 == Return(p.item[3], g, G)
             y  == Y(vf, p.item[1], p.item[2], G1, fit)
             t  == [X |-> p.item[1], A |-> p.item[2], G |-> G1, Y |-> y.val]
         IN  IF fail.k = Len(tg) + 1 /\ (fail.op = "update" \/ vf.MODELTYPE = 2)
             THEN [err |-> "ApproximatorError", cache |-> cache, nfit |-> fit,
                   targets |-> tg, calls |-> cl]
             ELSE ReplayFailPutBack(vf, g, p.cache, G1, fit + 1, Append(tg, t),
                                    (cl \o y.calls) \o <<UpdateCall(p.item[1], y.val, fit)>>,
                                    fail)

\* the loop  while self.experience_cache: ...  over a failing approximator:
\* nothing in update catches what batch_eval (inside self.Y) or update raise
RECURSIVE ReplayFail(_, _, _, _, _, _, _, _)
ReplayFail(vf, g, cache, G, fit, tg, cl, fail) ==
    IF ~cache_bool(cache)
    THEN [err |-> "", cache |-> cache, nfit |-> fit, targets |-> tg, calls |-> cl]
    ELSE LET p  == cache_pop(cache)
             X  == p.item[1]
             A  == p.item[2]
             R  == p.item[3]
             G1 == Return(R, g, G)
             y  == Y(vf, X, A, G1, fit)
             t  == [X |-> X, A |-> A, G |-> G1, Y |-> y.val]
             now == fail.k = Len(tg) + 1
         IN  IF p.err # ""
             THEN [err |-> p.err, cache |-> p.cache, nfit |-> fit,
                   targets |-> tg, calls |-> cl]
             ELSE IF now /\ fail.op = "batch_eval" /\ vf.MODELTYPE = 2
             THEN \* self.value_function.batch_eval(X) raises inside self.Y
                  [err |-> "ApproximatorError", cache |-> p.cache, nfit |-> fit,
                   targets |-> tg, calls |-> cl]
             ELSE IF y.err # ""
             THEN [err |-> y.err, cache |-> p.cache, nfit |-> fit,
                   targets |-> tg, calls |-> cl \o y.calls]
             ELSE IF now /\ fail.op = "update"
             THEN \* self.value_function.update(X, Y) raises
                  [err |-> "ApproximatorError", cache |-> p.cache, nfit |-> fit,
                   targets |-> Append(tg, t), calls |-> cl \o y.calls]
             ELSE ReplayFail(vf, g, p.cache, G1, fit + 1, Append(tg, t),
                             (cl \o y.calls) \o <<UpdateCall(X, y.val, fit)>>, fail)

MCUpdateFail(vf, g, cache, fit, s, a, r, s_next, done, fail) ==
    LET pre == preprocess_transition(vf, s, a, r, s_next)
    IN  IF pre.err # ""
        THEN [err |-> pre.err, cache |-> cache, nfit |-> fit, targets |-> <<>>, calls |-> <<>>]
        ELSE LET c1 == cache_append(cache, pre.val)
             IN  IF ~done
                 THEN [err |-> "", cache |-> c1, nfit |-> fit, targets |-> <<>>, calls |-> <<>>]
                 ELSE ReplayFail(vf, g, c1, <<Rat(0)>>, fit, <<>>, <<>>, fail)

\* algorithm.update(s, a, r, s_next, done) while the approximator fails as
\* `fail` says.  episode: the transitions passed since the last terminal call.
UpdateFail(a, r, done, fail) ==
    /\ constructed
    /\ Len(experience_cache) + 1 <= MaxEpisodeLen
    /\ nfit + Len(experience_cache) + 1 <= MaxFits
    /\ fail.k <= Len(experience_cache) + 1
    /\ done \/ fail = NoFail
    /\ LET s      == Len(experience_cache)
           s_next == Len(experience_cache) + 1
           t      == [s |-> s, a |-> a, r |-> r, s_next |-> s_next]
           going  == result.op = "update" /\ result.err = "" /\ ~result.args.done
       IN  \E u \in {MCUpdateFail(value_function, gamma, experience_cache, nfit,
                                  s, a, r, s_next, done, fail)} :
           /\ experience_cache' = u.cache
           /\ nfit' = u.nfit
           /\ targets' = u.targets
           /\ calls' = u.calls
           /\ episode' = IF u.err = "ValueError" THEN episode
                         ELSE IF going THEN Append(episode, t)
                         ELSE <<t>>
           /\ result' = [op |-> "update", args |-> [t |-> t, done |-> done, fail |-> fail],
                         err |-> u.err, val |-> <<>>]
    /\ UNCHANGED <<constructed, policy, value_function, gamma, second>>

NextFail ==
    \/ \E arg \in CtorArgs, g \in Gammas : Construct(arg, g)
    \/ \E a \in Actions, r \in FailRewards, done \in BOOLEAN, fail \in FailPoints :
          UpdateFail(a, r, done, fail)

SpecFail == Init /\ [][NextFail]_vars

-----------------------------------------------------------------------------
(* What the claims speak about.                                            *)

\* the last call was update and returned normally
UpdateReturned == result.op = "update" /\ result.err = ""
\* ... with done=True: an episode has just been completed
EpisodeCompleted == UpdateReturned /\ result.args.done
\* ... with done=False: an episode is in progress
EpisodeInProgress == UpdateReturned /\ ~result.args.done

Recognized(vf) == vf.MODELTYPE \in {1, 2}

\* the approximator update calls among the calls of the last call, in order
UpdateCalls == SelectSeq(calls, LAMBDA c : c.op = "update")
EvalCalls == SelectSeq(calls, LAMBDA c : c.op = "batch_eval")

RECURSIVE RatPow(_, _)
RatPow(g, k) == IF k = 0 THEN Rat(1) ELSE RatMul(g, RatPow(g, k - 1))

\* r_i + g r_{i+1} + ... + g^(n-i) r_n, summed left to right from term j on
RECURSIVE DiscountedSum(_, _, _, _)
DiscountedSum(ep, g, i, j) ==
    IF j > Len(ep) THEN Rat(0)
    ELSE RatAdd(RatMul(RatPow(g, j - i), Rat(ep[j].r)), DiscountedSum(ep, g, i, j + 1))

EpisodeRewards == [i \in 1 .. Len(episode) |-> episode[i].r]

-----------------------------------------------------------------------------
\* C1: after the terminal call of an episode of n update calls, the return
\* used for the target of the transition of step i (the (n-i+1)-th target
\* built) is r_i + gamma r_{i+1} + ... + gamma^(n-i) r_n; rewards [1,2,3]
\* with gamma = 1/2 give the returns 3, 7/2, 11/4 in call order.
C1_DiscountedReturn ==
    EpisodeCompleted =>
        /\ Len(targets) = Len(episode)
        /\ \A i \in 1 .. Len(episode) :
              LET t == targets[Len(episode) - i + 1]
              IN  /\ t.X[1][1] = episode[i].s
                  /\ t.A = <<episode[i].a>>
                  /\ Len(t.G) = 1
                  /\ RatEq(t.G[1], DiscountedSum(episode, gamma, i, i))
        /\ (EpisodeRewards = <<1, 2, 3>> /\ RatEq(gamma, <<1, 2>>)) =>
              /\ RatEq(targets[1].G[1], <<3, 1>>)
              /\ RatEq(targets[2].G[1], <<7, 2>>)
              /\ RatEq(targets[3].G[1], <<11, 4>>)

C1_Witness ==
    /\ EpisodeCompleted
    /\ EpisodeRewards = <<1, 2, 3>>
    /\ gamma = <<1, 2>>
    /\ Len(targets) = 3

C3_ReverseChronological ==
    EpisodeCompleted =>
        /\ Len(UpdateCalls) = Len(episode)
        /\ \A k \in 1 .. Len(UpdateCalls) :
              LET e == episode[Len(episode) - k + 1]
              IN  /\ UpdateCalls[k].X[1][1] = e.s
                  /\ targets[k].A = <<e.a>>

C3_Witness ==
    /\ EpisodeCompleted
    /\ Len(UpdateCalls) = 3
    /\ UpdateCalls[1].X[1][1] = 2
    /\ UpdateCalls[3].X[1][1] = 0

\* C4: update(s, a, r, s_next, done=False) on a recognized model kind calls
\* no approximator update and makes the cache exactly one entry longer.
C4_NonTerminalOnlyAppends ==
    [][(result'.op = "update" /\ ~result'.args.done /\ Recognized(value_function)) =>
           /\ result'.err = ""
           /\ Len(experience_cache') = Len(experience_cache) + 1
           /\ SubSeq(experience_cache', 1, Len(experience_cache)) = experience_cache
           /\ UpdateCalls' = <<>>
           /\ nfit' = nfit]_vars

C4_Witness ==
    /\ EpisodeInProgress
    /\ Recognized(value_function)
    /\ Len(experience_cache) = 2
    /\ UpdateCalls = <<>>

\* the target row Yrow of a type-II model: the prediction row P except at
\* the taken action a, where it is the return G
TypeIIRow(Yrow, P, a, G) ==
    /\ DOMAIN Yrow = Actions
    /\ \A b \in Actions : Yrow[b] = IF b = a THEN G ELSE P[b]

\* C5: for a type-II approximator every target row equals the approximator's
\* current prediction for that row (what batch_eval returned for it, under
\* the parameters of that moment) except at the taken action, where it is G.
C5_TypeIITarget ==
    value_function.MODELTYPE = 2 =>
        /\ EpisodeCompleted =>
              /\ Len(EvalCalls) = Len(targets)
              /\ \A k \in 1 .. Len(targets) :
                    LET t == targets[k]
                        e == EvalCalls[k]
                    IN  /\ e.X = t.X
                        /\ e.fit = nfit - Len(targets) + (k - 1)
                        /\ Len(t.Y) = 1
                        /\ TypeIIRow(t.Y[1], e.Y[1], t.A[1], t.G[1])
                        /\ \A b \in Actions : e.Y[1][b] = Predict(t.X[1], b, e.fit)
                        /\ UpdateCalls[k].Y = t.Y
        /\ (result.op = "Y" /\ result.err = "") =>
              /\ Len(result.val) = 1
              /\ Len(EvalCalls) = 1
              /\ TypeIIRow(result.val[1], EvalCalls[1].Y[1], result.args.A[1], result.args.G[1])
              /\ \A b \in Actions :
                    EvalCalls[1].Y[1][b] = Predict(result.args.X[1], b, nfit)

C5_Witness ==
    /\ value_function.MODELTYPE = 2
    /\ EpisodeCompleted
    /\ Len(targets) = 3
    /\ \E b \in Actions : b # targets[3].A[1] /\ targets[3].Y[1][b] = Predict(targets[3].X[1], b, nfit - 1)

\* C6: for a type-I approximator the target is the return batch G itself and
\* target construction never calls batch_eval.
C6_TypeITarget ==
    value_function.MODELTYPE = 1 =>
        /\ EpisodeCompleted =>
              /\ EvalCalls = <<>>
              /\ Len(UpdateCalls) = Len(targets)
              /\ \A k \in 1 .. Len(targets) :
                    /\ targets[k].Y = targets[k].G
                    /\ UpdateCalls[k].Y = targets[k].G
        /\ (result.op = "Y" /\ result.err = "") =>
              /\ calls = <<>>
              /\ result.val = result.args.G

C6_Witness ==
    /\ value_function.MODELTYPE = 1
    /\ EpisodeCompleted
    /\ Len(targets) = 3
    /\ targets[3].Y = targets[3].G
    /\ EvalCalls = <<>>

\* C7: constructing with an object that is neither a value function nor a
\* value-based policy fails with TypeError and yields no instance: nothing
\* has been updated, cached or fitted while there is no instance.
C7_ConstructionTypeError ==
    /\ result.op = "__init__" =>
          IF result.args.arg.cls \in {"ValuePolicy", "BaseValueFunction"}
          THEN result.err = "" /\ constructed
          ELSE result.err = "TypeError" /\ ~constructed
    /\ ~constructed =>
          /\ result.op \in {"none", "__init__"}
          /\ experience_cache = <<>>
          /\ calls = <<>>
          /\ nfit = 0

C7_Witness ==
    /\ result.op = "__init__"
    /\ result.args.arg.cls = "object"
    /\ result.err = "TypeError"
    /\ ~constructed

\* C8: preprocess_transition fails with ValueError exactly when the model
\* kind is neither 1 nor 2, and returns (X, A, R, X_next) for kinds 1 and 2.
C8_PreprocessModelKind ==
    result.op = "preprocess_transition" =>
        IF Recognized(value_function)
        THEN result.err = "" /\ Len(result.val) = 4
        ELSE result.err = "ValueError"

C8_Witness ==
    /\ result.op = "preprocess_transition"
    /\ ~Recognized(value_function)
    /\ result.err = "ValueError"

\* C9: Y(X, A, G) raises the unsupported-model-kind error (the ValueError of
\* preprocess_transition) when the model kind is neither 1 nor 2.
C9_YRaisesValueError ==
    (result.op = "Y" /\ ~Recognized(value_function)) => result.err = "ValueError"

\* (X, A, R, X_next) as preprocess_transition is to build it from a transition
Preprocessed(vf, v, s, a, r, s_next) ==
    /\ Len(v) = 4
    /\ v[2] = <<a>>
    /\ v[3] = <<r>>
    /\ Len(v[1]) = 1
    /\ Len(v[4]) = 1
    /\ IF vf.MODELTYPE = 1
       THEN /\ v[1][1] = <<s, a>>
            /\ DOMAIN v[4][1] = Actions
            /\ \A b \in Actions : v[4][1][b] = <<s_next, b>>
       ELSE /\ v[1][1] = <<s>>
            /\ v[4][1] = <<s_next>>

\* C10: type I: X is the feature row of (s, a) and X_next holds the features
\* of every candidate action at s_next; type II: X is the feature row of s
\* and X_next that of s_next; A and R are the size-1 batches of a and r.
\* It holds of direct calls and of every entry update has cached.
C10_PreprocessedShapes ==
    /\ (result.op = "preprocess_transition" /\ result.err = "") =>
          Preprocessed(value_function, result.val, result.args.s, result.args.a,
                       result.args.r, result.args.s_next)
    /\ \A i \in 1 .. Len(experience_cache) :
          Preprocessed(value_function, experience_cache[i], episode[i].s, episode[i].a,
                       episode[i].r, episode[i].s_next)

C10_Witness ==
    /\ result.op = "preprocess_transition"
    /\ result.err = ""
    /\ value_function.MODELTYPE = 1
    /\ result.args.s # result.args.s_next
    /\ result.val[4][1][1] = <<result.args.s_next, 1>>

-----------------------------------------------------------------------------
\* C11: constructed with a value-based policy, the instance stores the
\* policy and the policy's value function; constructed with a value function,
\* it stores that value function and policy None; no later call rebinds
\* either, and every replay addresses the approximator the way the stored
\* value function's kind requires (batch_eval exactly for type II).
C11_ResolvedValueFunction ==
    [][/\ (result'.op = "__init__" /\ result'.err = "") =>
             IF result'.args.arg.cls = "ValuePolicy"
             THEN /\ policy' = result'.args.arg
                  /\ value_function' = PolicyValueFunction(result'.args.arg)
             ELSE /\ policy' = NoneObj
                  /\ value_function' = result'.args.arg
       /\ constructed =>
             /\ value_function' = value_function
             /\ policy' = policy
             /\ value_function.cls = "BaseValueFunction"
       /\ (result'.op = "update" /\ result'.err = "" /\ result'.args.done) =>
             /\ Len(UpdateCalls') = Len(experience_cache) + 1
             /\ (EvalCalls' # <<>>) = (value_function.MODELTYPE = 2)]_vars

C11_Witness ==
    /\ constructed
    /\ policy.cls = "ValuePolicy"
    /\ value_function = PolicyValueFunction(policy)
    /\ EpisodeCompleted
    /\ nfit > Len(episode)

\* C13: the return accumulator starts from 0 in every replay: also in an
\* episode that follows completed ones, the first return is the terminal
\* reward alone and every return is the discounted sum of this episode's
\* rewards only.
C13_ReturnPerEpisode ==
    (EpisodeCompleted /\ nfit > Len(episode)) =>
        /\ Len(targets) = Len(episode)
        /\ RatEq(targets[1].G[1], Rat(episode[Len(episode)].r))
        /\ \A i \in 1 .. Len(episode) :
              RatEq(targets[Len(episode) - i + 1].G[1], DiscountedSum(episode, gamma, i, i))

C13_Witness ==
    /\ EpisodeCompleted
    /\ nfit > Len(episode)
    /\ Len(episode) = 2
    /\ gamma = <<1, 2>>
    /\ RatEq(targets[2].G[1], DiscountedSum(episode, gamma, 1, 1))

\* C18: in the replay of a type-II approximator batch_eval and update calls
\* alternate, starting with batch_eval; the k-th pair is for the k-th popped
\* transition and its predictions are read under the parameters left by
\* the k-1 updates before it in this replay, not those of before the replay.
C18_EvalUpdateAlternate ==
    (value_function.MODELTYPE = 2 /\ EpisodeCompleted) =>
        /\ Len(calls) = 2 * Len(episode)
        /\ \A k \in 1 .. Len(episode) :
              LET e == calls[2 * k - 1]
                  u == calls[2 * k]
                  before == nfit - Len(episode)
              IN  /\ e.op = "batch_eval"
                  /\ u.op = "update"
                  /\ e.X[1][1] = episode[Len(episode) - k + 1].s
                  /\ u.X = e.X
                  /\ e.fit = before + (k - 1)
                  /\ u.fit = e.fit
                  /\ \A b \in Actions :
                        b # targets[k].A[1] =>
                            u.Y[1][b] = Predict(e.X[1], b, before + (k - 1))

C18_Witness ==
    /\ value_function.MODELTYPE = 2
    /\ EpisodeCompleted
    /\ Len(calls) = 6
    /\ calls[5].op = "batch_eval"
    /\ calls[5].fit = nfit - 1
    /\ calls[5].Y # batch_eval(calls[5].X, nfit - 3)

\* C14: whatever the sequence of update calls, a first call with done=True
\* included, the replay never pops from an empty cache: no call ends in the
\* empty-cache error, and a terminal call pops exactly the entries appended.
C14_NoPopFromEmpty ==
    /\ result.err # "EmptyCacheError"
    /\ (result.op = "update" /\ result.args.done /\ Recognized(value_function)) =>
          /\ result.err = ""
          /\ Len(targets) = Len(episode)
          /\ experience_cache = <<>>

C14_Witness ==
    /\ EpisodeCompleted
    /\ Len(episode) = 1
    /\ nfit = 1
    /\ Len(targets) = 1

\* C16: update on an approximator of unrecognized model kind raises
\* ValueError before anything is appended: the cache is as it was and no
\* approximator operation is invoked, for done=False and done=True alike.
C16_BadKindLeavesCache ==
    [][(result'.op = "update" /\ ~Recognized(value_function)) =>
           /\ result'.err = "ValueError"
           /\ experience_cache' = experience_cache
           /\ calls' = <<>>
           /\ targets' = <<>>
           /\ nfit' = nfit]_vars

C16_Witness ==
    /\ result.op = "update"
    /\ result.args.done
    /\ ~Recognized(value_function)
    /\ result.err = "ValueError"
    /\ experience_cache = <<>>
    /\ calls = <<>>

\* C12: every algorithm class built on BaseAlgorithm stores the gamma given
\* at construction on the instance: MonteCarlo (through BaseValueAlgorithm)
\* and a class built on BasePolicyAlgorithm alike.
C12_GammaStored ==
    /\ (result.op = "__init__" /\ result.err = "") => gamma = result.args.gamma
    /\ result.op = "BasePolicyAlgorithm.__init__" =>
          /\ result.err = ""
          /\ result.val.has_gamma
          /\ result.val.gamma = result.args.gamma

\* C17: if batch_eval or update fails for the k-th transition popped by
\* the replay of a cache of n entries, the error leaves update with the
\* cache holding exactly the n-k entries appended first (the failing one
\* is gone) and k-1 updates made; a terminal call that does not fail
\* replays the whole cache, the transition just passed first and the
\* entries left by a failed replay last, and empties it.
C17_FailureLeavesRest ==
    [][(result'.op = "update" /\ result'.args.done /\ Recognized(value_function)) =>
           LET n == Len(experience_cache) + 1
               f == result'.args.fail
               armed == f.k \in 1 .. n /\ (f.op = "update" \/ value_function.MODELTYPE = 2)
           IN  IF armed
               THEN /\ result'.err = "ApproximatorError"
                    /\ experience_cache' = SubSeq(experience_cache, 1, n - f.k)
                    /\ Len(UpdateCalls') = f.k - 1
                    /\ nfit' = nfit + f.k - 1
               ELSE /\ result'.err = ""
                    /\ experience_cache' = <<>>
                    /\ Len(UpdateCalls') = n
                    /\ UpdateCalls'[1].X[1][1] = result'.args.t.s
                    /\ \A j \in 1 .. n - 1 :
                          UpdateCalls'[n + 1 - j].X = experience_cache[j][1]]_vars

\* a terminal call has just replayed more than the episode passed to it
C17_Witness ==
    /\ result.op = "update"
    /\ result.err = ""
    /\ result.args.done
    /\ Len(episode) >= 1
    /\ Len(UpdateCalls) > Len(episode)
    /\ experience_cache = <<>>

\* C15: with the update calls of two instances on one value function
\* interleaved, a call on one instance (its construction included) leaves
\* the other instance's cache as it was, a non-terminal call makes its own
\* cache one entry longer, and a terminal call replays exactly the
\* transitions passed through its own instance, last first, and empties
\* its own cache.
C15_OwnCache ==
    [][/\ (result'.op = "__init__" /\ second'.constructed /\ ~second.constructed) =>
             /\ CacheOf(1)' = CacheOf(1)
             /\ CacheOf(2)' = <<>>
       /\ \A i \in {1, 2} : (result'.op = "update" /\ result'.args.instance = i) =>
             LET ep == Append(EpisodeOf(i), result'.args.t)
                 n  == Len(ep)
             IN  /\ CacheOf(3 - i)' = CacheOf(3 - i)
                 /\ (result'.err = "" /\ ~result'.args.done) =>
                       /\ Len(CacheOf(i)') = n
                       /\ targets' = <<>>
                 /\ (result'.err = "" /\ result'.args.done) =>
                       /\ CacheOf(i)' = <<>>
                       /\ Len(targets') = n
                       /\ \A k \in 1 .. n :
                             /\ targets'[k].A = <<ep[n + 1 - k].a>>
                             /\ targets'[k].X[1][1] = ep[n + 1 - k].s
                       /\ RatEq(targets'[1].G[1], Rat(i))]_vars

\* instance 2 has just completed an episode of two steps while instance 1
\* holds one cached transition
C15_Witness ==
    /\ result.op = "update"
    /\ result.args.instance = 2
    /\ result.args.done
    /\ result.err = ""
    /\ Len(targets) = 2
    /\ Len(CacheOf(1)) = 1
    /\ CacheOf(2) = <<>>

-----------------------------------------------------------------------------
TypeOK ==
    /\ constructed \in BOOLEAN
    /\ nfit \in 0 .. MaxFits
    /\ Len(experience_cache) <= MaxEpisodeLen
====
